---- MODULE Spec2Model ----
(***************************************************************************)
(* Model of adafruit_bluefruit_connect: Packet (packet.py) and ImagePacket *)
(* (image_packet.py).  Bytes are naturals in 0..255, byte strings are      *)
(* sequences of bytes.  A stream is a pair of byte queues: to_rcv holds    *)
(* the bytes the from_stream side can read, to_snd the bytes the           *)
(* into_stream side can read.  stream.read(n) returns the first (at most   *)
(* n) queued bytes; an empty result is a timeout.                          *)
(***************************************************************************)
EXTENDS Integers, Sequences, FiniteSets, TLC

VARIABLES
    type_to_class,  \* Packet._type_to_class: header -> class
    to_rcv,         \* bytes queued for the receiving side's stream.read
    to_snd,         \* bytes queued for the sending side's stream.read
    rpc,            \* from_stream: position in the method
    rcls,           \* from_stream: the class it was called on (cls)
    rsize,          \* from_stream: interleave_size
    start,          \* from_stream: local start
    packet,         \* from_stream: local packet (header for the fixed route)
    colorspace_byte, \* from_stream: local colorspace_byte
    width_byte,     \* from_stream: local width_byte
    size_data,      \* from_stream: local size_data
    rloop,          \* from_stream: local loop_count
    ri,             \* from_stream: iterations of the chunk loop done
    result,         \* from_stream: returned value or raised error
    ops,            \* from_stream: stream operations performed by the call
    fb,             \* last from_bytes invocation: cls, packet, result
    spc,            \* into_stream: position in the method
    self,           \* into_stream: the packet being sent
    data,           \* into_stream: local data
    ssize,          \* into_stream: interleave_size
    sloop,          \* into_stream: local loop_count
    si,             \* into_stream: iterations of the chunk loop done
    slice_start,    \* into_stream: local slice_start
    sops,           \* into_stream: stream operations performed by the call
    registrations,  \* history (RegSpec): the classes registered, in call order
    polls,          \* history: from_stream calls that returned before this one
    prev,           \* history: the previous call's result and what it left queued
    ck_arg,         \* checksum / add_checksum: the argument partial_packet
    ck_res          \* checksum / add_checksum: what they returned

regvars  == <<type_to_class>>
auxvars  == <<registrations, polls, prev, ck_arg, ck_res>>
chanvars == <<to_rcv, to_snd>>
rvars    == <<rpc, rcls, rsize, start, packet, colorspace_byte, width_byte,
              size_data, rloop, ri, result, ops>>
svars    == <<spc, self, data, ssize, sloop, si, slice_start, sops>>
vars     == <<type_to_class, to_rcv, to_snd, rpc, rcls, rsize, start, packet,
              colorspace_byte, width_byte, size_data, rloop, ri, result, ops,
              fb, spc, self, data, ssize, sloop, si, slice_start, sops,
              registrations, polls, prev, ck_arg, ck_res>>

----------------------------------------------------------------------------
(* Bounds *)

MaxDim   == 2    \* largest image width and height
MaxChunk == 4    \* largest interleave_size
MaxNoise == 1    \* longest run of non-marker bytes in front of a frame
MaxRegs  == 3    \* registrations made after the import
MaxLen   == 3    \* longest argument of checksum and add_checksum
MaxPolls == 1    \* from_stream calls made again on the same stream
MaxJunk  == 1    \* bytes other than 0x06 a peer sends to an into_stream call

----------------------------------------------------------------------------
(* Byte values the code names *)

Bang    == 33    \* b"!"
ACK     == 6     \* b"\x06"
Newline == 10    \* b"\n", the terminator stream.readline() stops at
RGB565  == 16    \* colorspace value with 2 bytes per pixel
RGB888  == 24    \* a colorspace value with 3 bytes per pixel

ImageHeader   == <<33, 73>>    \* ImagePacket._TYPE_HEADER  b"!I"
RawTextHeader == <<82, 84>>    \* registry key b"RT" of the raw text class
AHeader       == <<33, 65>>    \* header b"!A" of the fixed-length type
ZHeader       == <<33, 90>>    \* header b"!Z", never registered
ALength       == 4             \* PACKET_LENGTH of the fixed-length type
BLength       == 5             \* PACKET_LENGTH of a second type with header b"!A"
NoLength      == -1            \* PACKET_LENGTH = None

----------------------------------------------------------------------------
(* Byte-string helpers: Python slicing, sum, int.from_bytes, struct.pack *)

Min(a, b) == IF a < b THEN a ELSE b

\* s[0:n]
Take(s, n) == SubSeq(s, 1, Min(n, Len(s)))

\* s[n:]
Drop(s, n) == SubSeq(s, Min(n, Len(s)) + 1, Len(s))

\* s[a:b] for 0 <= a, 0 <= b
Slice(s, a, b) == SubSeq(s, Min(a, Len(s)) + 1, Min(b, Len(s)))

RECURSIVE Sum(_)
Sum(s) == IF s = <<>> THEN 0 ELSE s[1] + Sum(Tail(s))

\* int.from_bytes(s, "little")
RECURSIVE LittleEndian(_)
LittleEndian(s) == IF s = <<>> THEN 0 ELSE s[1] + 256 * LittleEndian(Tail(s))

\* struct.pack("<H", v)
PackH(v) == <<v % 256, (v \div 256) % 256>>

\* math.ceil(a / b) for a >= 0, b > 0
Ceil(a, b) == (a + b - 1) \div b

\* the bytes stream.readline() returns from queue q: up to and including the
\* first line terminator, or everything queued when there is none
RECURSIVE LineOf(_)
LineOf(q) ==
    IF q = <<>> THEN <<>>
    ELSE IF q[1] = Newline THEN <<Newline>>
    ELSE <<q[1]>> \o LineOf(Tail(q))

----------------------------------------------------------------------------
(* Classes.  Packet and ImagePacket are the classes of the library; PacketA *)
(* stands for a fixed-length packet type, RawTextPacket for the raw-line    *)
(* fallback type that from_stream looks up under b"RT".                     *)

None == "None"

CallClasses == {"Packet", "ImagePacket"}
RegClasses  == {"ImagePacket", "PacketA", "RawTextPacket"}

TYPE_HEADER(c) ==
    CASE c = "ImagePacket"   -> ImageHeader
      [] c = "PacketA"       -> AHeader
      [] c = "PacketB"       -> AHeader
      [] c = "RawTextPacket" -> RawTextHeader

PACKET_LENGTH(c) ==
    CASE c = "PacketA" -> ALength
      [] c = "PacketB" -> BLength
      [] OTHER         -> NoLength

\* a test that every pair of classes passes
issubclass_any(c, d) == TRUE

\* issubclass(c, d): every class derives from Packet directly
issubclass(c, d) == c = d \/ d = "Packet"

\* dict.get(k, None)
Get(d, k) == IF k \in DOMAIN d THEN d[k] ELSE None

----------------------------------------------------------------------------
(* Checksum, encoding, decoding *)

\* checksum without the mask & 0xFF
checksum_unmasked(partial_packet) == (0 - Sum(partial_packet)) - 1

\* Packet.checksum: ~sum(partial_packet) & 0xFF
checksum(partial_packet) == ((0 - Sum(partial_packet)) - 1) % 256

\* add_checksum appending the sum itself instead of its complement
add_checksum_sum(partial_packet) ==
    partial_packet \o <<Sum(partial_packet) % 256>>

\* Packet.add_checksum
add_checksum(partial_packet) == partial_packet \o <<checksum(partial_packet)>>

\* ImagePacket.get_bytes_per_color and the receiver's bytes_per_pixel
bytes_per_pixel(colorspace_value) == IF colorspace_value = RGB565 THEN 2 ELSE 3

\* ImagePacket.to_bytes of ImagePacket(colorspace, width, height, raw_pixels)
ImageToBytes(p) ==
    add_checksum(ImageHeader \o <<p.colorspace>> \o PackH(p.width)
                 \o PackH(p.height) \o p.raw_pixels)

\* to_bytes of the fixed-length type: header, payload, checksum
AToBytes(p) == add_checksum(AHeader \o <<p.payload>>)

\* self.to_bytes()
to_bytes(p) == IF p.cls = "ImagePacket" THEN ImageToBytes(p) ELSE AToBytes(p)

Err(m) == [kind |-> "error", msg |-> m]

NoResult == [kind |-> "pending"]

ReturnNone == [kind |-> "None"]

\* ImagePacket.parse_private: struct.unpack("<xxBHH", packet[0:7]) needs
\* seven bytes; the conversion of raw_pixels to a bitmap is not modelled
ImageParsePrivate(pkt) ==
    IF Len(pkt) < 7 THEN Err("struct.error")
    ELSE [kind |-> "frame", cls |-> "ImagePacket",
          colorspace |-> pkt[3],
          width  |-> LittleEndian(SubSeq(pkt, 4, 5)),
          height |-> LittleEndian(SubSeq(pkt, 6, 7)),
          raw_pixels |-> SubSeq(pkt, 8, Len(pkt) - 1)]

\* Packet.parse_private for a fixed-length type: the constructor receives
\* the values unpacked from the bytes between header and checksum
parse_private(c, pkt) ==
    IF c = "ImagePacket" THEN ImageParsePrivate(pkt)
    ELSE [kind |-> "frame", cls |-> c, payload |-> SubSeq(pkt, 3, Len(pkt) - 1)]

\* from_bytes comparing the checksum before the length
from_bytes_checksum_first(reg, cls, pkt) ==
    IF Len(pkt) < 3 THEN Err("Packet too short")
    ELSE LET packet_class == Get(reg, SubSeq(pkt, 1, 2)) IN
         IF packet_class = None THEN Err("Unregistered packet type")
         ELSE IF ~issubclass(packet_class, cls) THEN Err("Packet type is not a")
         ELSE IF checksum(SubSeq(pkt, 1, Len(pkt) - 1)) # pkt[Len(pkt)]
              THEN Err("Bad checksum")
         ELSE IF packet_class # "ImagePacket"
                 /\ Len(pkt) # PACKET_LENGTH(packet_class)
              THEN Err("Wrong length packet")
         ELSE parse_private(packet_class, pkt)

\* from_bytes without the comparison of the length
from_bytes_any_length(reg, cls, pkt) ==
    IF Len(pkt) < 3 THEN Err("Packet too short")
    ELSE LET packet_class == Get(reg, SubSeq(pkt, 1, 2)) IN
         IF packet_class = None THEN Err("Unregistered packet type")
         ELSE IF ~issubclass(packet_class, cls) THEN Err("Packet type is not a")
         ELSE IF checksum(SubSeq(pkt, 1, Len(pkt) - 1)) # pkt[Len(pkt)]
              THEN Err("Bad checksum")
         ELSE parse_private(packet_class, pkt)

\* from_bytes without the comparison of the checksum
from_bytes_unchecked(reg, cls, pkt) ==
    IF Len(pkt) < 3 THEN Err("Packet too short")
    ELSE LET packet_class == Get(reg, SubSeq(pkt, 1, 2)) IN
         IF packet_class = None THEN Err("Unregistered packet type")
         ELSE IF ~issubclass(packet_class, cls) THEN Err("Packet type is not a")
         ELSE IF packet_class # "ImagePacket"
                 /\ Len(pkt) # PACKET_LENGTH(packet_class)
              THEN Err("Wrong length packet")
         ELSE parse_private(packet_class, pkt)

\* Packet.from_bytes called on class cls with the registry reg
from_bytes(reg, cls, pkt) ==
    IF Len(pkt) < 3 THEN Err("Packet too short")
    ELSE LET packet_class == Get(reg, SubSeq(pkt, 1, 2)) IN
         IF packet_class = None THEN Err("Unregistered packet type")
         ELSE IF ~issubclass(packet_class, cls) THEN Err("Packet type is not a")
         ELSE IF packet_class # "ImagePacket"
                 /\ Len(pkt) # PACKET_LENGTH(packet_class)
              THEN Err("Wrong length packet")
         ELSE IF checksum(SubSeq(pkt, 1, Len(pkt) - 1)) # pkt[Len(pkt)]
              THEN Err("Bad checksum")
         ELSE parse_private(packet_class, pkt)

----------------------------------------------------------------------------
(* Inputs: packets to send, byte buffers and stream contents to decode *)

\* raw pixel bytes 1, 2, ..., n: all different, so that order shows
Pixels(n) == [k \in 1..n |-> k]

\* ImagePacket(colorspace, width, height, raw_pixels) objects
ImagePackets ==
    {[cls |-> "ImagePacket", colorspace |-> c, width |-> w, height |-> h,
      raw_pixels |-> Pixels(w * h * bytes_per_pixel(c))] :
        c \in {RGB565, RGB888}, w \in 0..MaxDim, h \in 0..MaxDim}

\* byte b with bit k flipped
FlipBit(b, k) ==
    IF (b \div (2 ^ k)) % 2 = 1 THEN b - 2 ^ k ELSE b + 2 ^ k

\* s with bit k of its last byte flipped
FlipLast(s, k) == SubSeq(s, 1, Len(s) - 1) \o <<FlipBit(s[Len(s)], k)>>

APayloads == {0, 7}

\* objects of the fixed-length type
APackets == {[cls |-> "PacketA", payload |-> p] : p \in APayloads}

\* a well-formed frame of the fixed-length type
AFrame(p) == AToBytes([cls |-> "PacketA", payload |-> p])

\* a line of text without a start marker
NoiseLine == <<104, 105, Newline>>

\* one byte too many for the fixed-length type, the checksum right
LongA == add_checksum(AHeader \o <<0, 0>>)

Buffers ==
    {<<>>, <<Bang>>, ZHeader \o <<1>>, AHeader \o <<0>>, AFrame(0) \o <<0>>}
    \cup {AHeader, LongA, NoiseLine}
    \cup {AFrame(p) : p \in APayloads}
    \cup {FlipLast(AFrame(0), k) : k \in 0..7}
    \cup {to_bytes(p) : p \in ImagePackets}
    \cup {FlipLast(to_bytes(p), 0) : p \in {q \in ImagePackets : q.width = 1}}

RECURSIVE SeqsUpTo(_, _)
SeqsUpTo(S, n) ==
    IF n = 0 THEN {<<>>}
    ELSE LET shorter == SeqsUpTo(S, n - 1) IN
         shorter \cup {<<b>> \o s : b \in S, s \in {t \in shorter : Len(t) = n - 1}}

\* bytes that are not the start marker
Noise == SeqsUpTo({104, Newline}, MaxNoise)

Trailers == {<<>>, <<105, Newline>> \o AFrame(7)}

Streams == {n \o b \o t : n \in Noise, b \in Buffers, t \in Trailers}

ChunkSizes == 1..MaxChunk

----------------------------------------------------------------------------
(* Stream operations, as entries of a call's log *)

ReadOp(n, got)  == [op |-> "read", n |-> n, data |-> got]

LineOp(got)     == [op |-> "readline", n |-> 0, data |-> got]

WriteOp(bytes)  == [op |-> "write", n |-> Len(bytes), data |-> bytes]

NoCall == [called |-> FALSE, cls |-> None, packet |-> <<>>, result |-> NoResult]

Called(cls, pkt, res) ==
    [called |-> TRUE, cls |-> cls, packet |-> pkt, result |-> res]

----------------------------------------------------------------------------
(* Initial states *)

RcvInit ==
    /\ rpc = "idle" /\ rcls = None /\ rsize = 0 /\ start = <<>>
    /\ packet = <<>> /\ colorspace_byte = <<>> /\ width_byte = <<>>
    /\ size_data = 0 /\ rloop = 0 /\ ri = 0
    /\ result = NoResult /\ ops = <<>> /\ fb = NoCall

SndInit ==
    /\ spc = "idle" /\ self = [cls |-> None] /\ data = <<>> /\ ssize = 0 /\ sloop = 0
    /\ si = 0 /\ slice_start = 0 /\ sops = <<>>

\* image_packet.py registers ImagePacket when it is imported
RegInit == type_to_class = (ImageHeader :> "ImagePacket")

\* there was no earlier from_stream call
NoPrev == [result |-> NoResult, rest |-> <<>>]

\* no call of checksum or add_checksum has returned
NoReturns == [k \in {} |-> 0]

\* nothing recorded yet but the registration made at import; no checksum asked
AuxInit ==
    /\ registrations = <<"ImagePacket">> /\ polls = 0 /\ prev = NoPrev
    /\ ck_arg = <<>> /\ ck_res = NoReturns

\* a receiver in front of a stream that already holds its bytes
Init ==
    /\ RegInit /\ RcvInit /\ SndInit /\ AuxInit
    /\ to_rcv \in Streams
    /\ to_snd = <<>>

----------------------------------------------------------------------------
(* Packet.register_packet_type, called on class c while the application   *)
(* sets up, before it decodes or sends anything                            *)

\* a registration that keeps the class a header already has
RegisteredOnce(reg, c) ==
    [k \in DOMAIN reg \cup {TYPE_HEADER(c)} |->
        IF k \in DOMAIN reg THEN reg[k] ELSE c]

Registered(reg, c) ==
    [k \in DOMAIN reg \cup {TYPE_HEADER(c)} |->
        IF k = TYPE_HEADER(c) THEN c ELSE reg[k]]

register_packet_type(c) ==
    /\ rpc = "idle" /\ spc = "idle" /\ ~fb.called
    /\ type_to_class' = Registered(type_to_class, c)
    /\ UNCHANGED <<auxvars, chanvars, rvars, fb, svars>>

----------------------------------------------------------------------------
(* Packet.from_bytes called directly.  It touches no stream, so it is      *)
(* explored with nothing queued.                                           *)

FromBytesCall(cls, pkt) ==
    /\ rpc = "idle" /\ spc = "idle" /\ ~fb.called /\ to_rcv = <<>>
    /\ fb' = Called(cls, pkt, from_bytes(type_to_class, cls, pkt))
    /\ UNCHANGED <<auxvars, regvars, chanvars, rvars, svars>>

----------------------------------------------------------------------------
(* Packet.from_stream, one action per stream operation *)

\* size_data without the byte of the checksum
SizeDataPixelsOnly(cs_byte, w_byte, h_byte) ==
    LittleEndian(w_byte) * LittleEndian(h_byte)
        * bytes_per_pixel(LittleEndian(cs_byte))

\* size_data from the three header fields as read (packet.py 173-179)
SizeData(cs_byte, w_byte, h_byte) ==
    LittleEndian(w_byte) * LittleEndian(h_byte)
        * bytes_per_pixel(LittleEndian(cs_byte)) + 1

\* loop_count with the division rounded down
RcvLoopCountFloor(size, interleave_size) == size \div interleave_size

\* loop_count = math.ceil(size_data / interleave_size) (packet.py 187)
RcvLoopCount(size, interleave_size) == Ceil(size, interleave_size)

\* the byte string written after each chunk read (packet.py 191)
AckBytes == <<ACK>>

\* the packet buffer after the chunk loop and the two reads that follow it
\* (packet.py 192-193); chunks are what the loop's reads returned
Assembled(pkt, chunks, tail) == pkt \o tail

\* a read that never counts as timed out
TimedOutNever(got) == FALSE

\* "if not start", "if not packet_type": the read returned nothing
\* (packet.py 136, 148)
TimedOut(got) == got = <<>>

\* an unregistered header that sends the call back to scanning
RetryUnregistered == [rpc |-> "scan", result |-> NoResult]

\* raise ValueError("Unregistered packet type ...") (packet.py 166-167)
RaiseUnregistered ==
    [rpc |-> "done", result |-> Err("Unregistered packet type")]

\* the raw text packet without the byte read first
RawPacketLineOnly(first, line) == line

\* packet = bytes(start + stream.readline()) (packet.py 158)
RawPacket(first, line) == first \o line

\* a scan that takes every byte for the start marker
AfterStartAsMarker(got, raw_text_packet_cls) == "type"

\* if start == b"!": read the type; elif raw_text_packet_cls is not None:
\* the raw text route; else the next pass of the loop (packet.py 144-159)
AfterStart(got, raw_text_packet_cls) ==
    IF got = <<Bang>> THEN "type"
    ELSE IF raw_text_packet_cls # None THEN "line"
    ELSE "scan"

\* one byte too few after the header
FixedRestShort(c) == PACKET_LENGTH(c) - 3

\* packet_class._PACKET_LENGTH - 2 (packet.py 195)
FixedRest(c) == PACKET_LENGTH(c) - 2

FromStreamCall(cls, n) ==
    /\ rpc = "idle" /\ ~fb.called
    /\ rpc' = "scan" /\ rcls' = cls /\ rsize' = n
    /\ UNCHANGED <<auxvars, regvars, chanvars, start, packet, colorspace_byte,
                   width_byte, size_data, rloop, ri, result, ops, fb, svars>>

\* one pass of the scanning loop up to the test of start (133-144, 154-157)
ReadStart ==
    /\ rpc = "scan"
    /\ LET got == Take(to_rcv, 1) IN
       /\ to_rcv' = Drop(to_rcv, 1)
       /\ ops' = Append(ops, ReadOp(1, got))
       /\ start' = got
       /\ IF TimedOut(got)
          THEN rpc' = "done" /\ result' = ReturnNone
          ELSE /\ result' = result
               /\ rpc' = AfterStart(got, Get(type_to_class, RawTextHeader))
    /\ UNCHANGED <<auxvars, regvars, to_snd, rcls, rsize, packet, colorspace_byte,
                   width_byte, size_data, rloop, ri, fb, svars>>

\* the raw text route (158-159)
ReadLine ==
    /\ rpc = "line"
    /\ LET got == LineOf(to_rcv) IN
       /\ to_rcv' = Drop(to_rcv, Len(got))
       /\ ops' = Append(ops, LineOp(got))
       /\ packet' = RawPacket(start, got)
       /\ result' = [kind |-> "frame",
                     cls |-> Get(type_to_class, RawTextHeader),
                     text |-> RawPacket(start, got)]
       /\ rpc' = "done"
    /\ UNCHANGED <<auxvars, regvars, to_snd, rcls, rsize, start, colorspace_byte,
                   width_byte, size_data, rloop, ri, fb, svars>>

\* the type byte and the registry lookup (147-151, 163-170)
ReadType ==
    /\ rpc = "type"
    /\ LET got == Take(to_rcv, 1)
           header == start \o got
           packet_class == Get(type_to_class, header) IN
       /\ to_rcv' = Drop(to_rcv, 1)
       /\ ops' = Append(ops, ReadOp(1, got))
       /\ IF TimedOut(got)
          THEN rpc' = "done" /\ result' = ReturnNone /\ packet' = packet
          ELSE IF packet_class = None
          THEN /\ rpc' = RaiseUnregistered.rpc /\ packet' = packet
               /\ result' = RaiseUnregistered.result
          ELSE /\ packet' = header /\ result' = result
               /\ rpc' = IF packet_class = "ImagePacket"
                         THEN "colorspace" ELSE "fixed"
    /\ UNCHANGED <<auxvars, regvars, to_snd, rcls, rsize, start, colorspace_byte,
                   width_byte, size_data, rloop, ri, fb, svars>>

\* the fixed-length route (195-196)
ReadFixed ==
    /\ rpc = "fixed"
    /\ LET n == FixedRest(Get(type_to_class, packet))
           got == Take(to_rcv, n)
           res == from_bytes(type_to_class, rcls, packet \o got) IN
       /\ to_rcv' = Drop(to_rcv, n)
       /\ ops' = Append(ops, ReadOp(n, got))
       /\ packet' = packet \o got
       /\ fb' = Called(rcls, packet \o got, res)
       /\ result' = res
       /\ rpc' = "done"
    /\ UNCHANGED <<auxvars, regvars, to_snd, rcls, rsize, start, colorspace_byte,
                   width_byte, size_data, rloop, ri, svars>>

\* colorspace_byte = stream.read(1) (172)
ReadColorspace ==
    /\ rpc = "colorspace"
    /\ colorspace_byte' = Take(to_rcv, 1)
    /\ to_rcv' = Drop(to_rcv, 1)
    /\ ops' = Append(ops, ReadOp(1, Take(to_rcv, 1)))
    /\ rpc' = "width"
    /\ UNCHANGED <<auxvars, regvars, to_snd, rcls, rsize, start, packet, width_byte,
                   size_data, rloop, ri, result, fb, svars>>

\* width_byte = stream.read(2) (175)
ReadWidth ==
    /\ rpc = "width"
    /\ width_byte' = Take(to_rcv, 2)
    /\ to_rcv' = Drop(to_rcv, 2)
    /\ ops' = Append(ops, ReadOp(2, Take(to_rcv, 2)))
    /\ rpc' = "height"
    /\ UNCHANGED <<auxvars, regvars, to_snd, rcls, rsize, start, packet,
                   colorspace_byte, size_data, rloop, ri, result, fb, svars>>

\* height_byte = stream.read(2), the size arithmetic, loop_count (176-187)
ReadHeight ==
    /\ rpc = "height"
    /\ LET height_byte == Take(to_rcv, 2)
           size == SizeData(colorspace_byte, width_byte, height_byte) IN
       /\ to_rcv' = Drop(to_rcv, 2)
       /\ ops' = Append(ops, ReadOp(2, height_byte))
       /\ size_data' = size
       /\ packet' = packet \o colorspace_byte \o width_byte \o height_byte
       /\ rloop' = RcvLoopCount(size, rsize)
       /\ ri' = 0
       /\ rpc' = IF RcvLoopCount(size, rsize) > 0 THEN "chunk_read" ELSE "tail_data"
    /\ UNCHANGED <<auxvars, regvars, to_snd, rcls, rsize, start, colorspace_byte,
                   width_byte, result, fb, svars>>

\* stream.read(interleave_size) in the chunk loop (190)
ReadChunk ==
    /\ rpc = "chunk_read"
    /\ to_rcv' = Drop(to_rcv, rsize)
    /\ ops' = Append(ops, ReadOp(rsize, Take(to_rcv, rsize)))
    /\ rpc' = "chunk_ack"
    /\ UNCHANGED <<auxvars, regvars, to_snd, rcls, rsize, start, packet,
                   colorspace_byte, width_byte, size_data, rloop, ri, result,
                   fb, svars>>

\* stream.write(b"\x06") in the chunk loop (191)
WriteAck ==
    /\ rpc = "chunk_ack"
    /\ to_snd' = to_snd \o AckBytes
    /\ ops' = Append(ops, WriteOp(AckBytes))
    /\ ri' = ri + 1
    /\ rpc' = IF ri + 1 < rloop THEN "chunk_read" ELSE "tail_data"
    /\ UNCHANGED <<auxvars, regvars, to_rcv, rcls, rsize, start, packet,
                   colorspace_byte, width_byte, size_data, rloop, result, fb,
                   svars>>

\* the bytes the chunk loop's reads returned, in order
RECURSIVE ChunkData(_)
ChunkData(log) ==
    IF log = <<>> THEN <<>>
    ELSE ChunkData(SubSeq(log, 1, Len(log) - 1))
         \o (IF Len(log) < Len(ops) /\ ops[Len(log) + 1].op = "write"
             THEN log[Len(log)].data ELSE <<>>)

\* packet += stream.read(size_data) (192)
ReadTailData ==
    /\ rpc = "tail_data"
    /\ packet' = Assembled(packet, ChunkData(ops), Take(to_rcv, size_data))
    /\ to_rcv' = Drop(to_rcv, size_data)
    /\ ops' = Append(ops, ReadOp(size_data, Take(to_rcv, size_data)))
    /\ rpc' = "tail_one"
    /\ UNCHANGED <<auxvars, regvars, to_snd, rcls, rsize, start, colorspace_byte,
                   width_byte, size_data, rloop, ri, result, fb, svars>>

\* packet += stream.read(1); return cls.from_bytes(packet) (193, 196)
ReadTailOne ==
    /\ rpc = "tail_one"
    /\ LET got == Take(to_rcv, 1)
           res == from_bytes(type_to_class, rcls, packet \o got) IN
       /\ to_rcv' = Drop(to_rcv, 1)
       /\ ops' = Append(ops, ReadOp(1, got))
       /\ packet' = packet \o got
       /\ fb' = Called(rcls, packet \o got, res)
       /\ result' = res
       /\ rpc' = "done"
    /\ UNCHANGED <<auxvars, regvars, to_snd, rcls, rsize, start, colorspace_byte,
                   width_byte, size_data, rloop, ri, svars>>

\* the caller, polling: from_stream called again on the same stream, with
\* the same class and interleave_size, after the call before it returned
\* or raised
FromStreamAgain ==
    /\ rpc = "done" /\ polls < MaxPolls
    /\ polls' = polls + 1
    /\ prev' = [result |-> result, rest |-> to_rcv]
    /\ rpc' = "scan" /\ start' = <<>> /\ packet' = <<>>
    /\ colorspace_byte' = <<>> /\ width_byte' = <<>>
    /\ size_data' = 0 /\ rloop' = 0 /\ ri' = 0
    /\ result' = NoResult /\ ops' = <<>> /\ fb' = NoCall
    /\ UNCHANGED <<registrations, ck_arg, ck_res, regvars, chanvars, rcls, rsize,
                   svars>>

FromStreamStep ==
    \/ ReadStart \/ ReadLine \/ ReadType \/ ReadFixed
    \/ ReadColorspace \/ ReadWidth \/ ReadHeight
    \/ ReadChunk \/ WriteAck \/ ReadTailData \/ ReadTailOne

----------------------------------------------------------------------------
(* Packet.into_stream, one action per stream operation *)

\* loop_count = math.ceil(len(data) / interleave_size) (packet.py 104)
SndLoopCount(d, interleave_size) == Ceil(Len(d), interleave_size)

\* data[slice_start:slice_end] with slice_end = slice_start +
\* interleave_size (packet.py 107-108)
ChunkSlice(d, from, interleave_size) == Slice(d, from, from + interleave_size)

\* slice_start when the next pass of the loop begins: the loop body never
\* assigns it (packet.py 105-110)
NextSliceStart(from, interleave_size) == from

\* a wait that any byte ends
IsAckAnyByte(got) == got # <<>>

\* whether the byte string read while waiting ends the wait (packet.py 109)
IsAck(got) == got = <<ACK>>

\* a test that every packet passes
IsAnyPacket(p) == TRUE

\* isinstance(self, ImagePacket) (packet.py 102)
IsImagePacket(p) == p.cls = "ImagePacket"

IntoStreamCall(p, n) ==
    /\ spc = "idle"
    /\ self' = p /\ ssize' = n /\ data' = to_bytes(p)
    /\ spc' = IF IsImagePacket(p) THEN "header" ELSE "write_all"
    /\ UNCHANGED <<auxvars, regvars, chanvars, rvars, fb, sloop, si, slice_start, sops>>

\* stream.write(data) for a packet that is no ImagePacket (112)
WriteAll ==
    /\ spc = "write_all"
    /\ to_rcv' = to_rcv \o data
    /\ sops' = Append(sops, WriteOp(data))
    /\ spc' = "done"
    /\ UNCHANGED <<auxvars, regvars, to_snd, rvars, fb, self, data, ssize, sloop, si,
                   slice_start>>

\* stream.write(data[0:7]), loop_count, slice_start = 0 (103-105)
WriteHeader ==
    /\ spc = "header"
    /\ to_rcv' = to_rcv \o Slice(data, 0, 7)
    /\ sops' = Append(sops, WriteOp(Slice(data, 0, 7)))
    /\ sloop' = SndLoopCount(data, ssize)
    /\ slice_start' = 0
    /\ si' = 0
    /\ spc' = IF SndLoopCount(data, ssize) > 0 THEN "chunk_write" ELSE "done"
    /\ UNCHANGED <<auxvars, regvars, to_snd, rvars, fb, self, data, ssize>>

\* stream.write(data[slice_start:slice_end]) (107-108)
WriteChunk ==
    /\ spc = "chunk_write"
    /\ to_rcv' = to_rcv \o ChunkSlice(data, slice_start, ssize)
    /\ sops' = Append(sops, WriteOp(ChunkSlice(data, slice_start, ssize)))
    /\ spc' = "wait_ack"
    /\ UNCHANGED <<auxvars, regvars, to_snd, rvars, fb, self, data, ssize, sloop, si,
                   slice_start>>

\* one stream.read(1) of the wait loop (109-110).  A read that times out
\* returns b"" and changes nothing; it is not entered in the log.
ReadAck ==
    /\ spc = "wait_ack"
    /\ LET got == Take(to_snd, 1) IN
       /\ to_snd' = Drop(to_snd, 1)
       /\ sops' = IF got = <<>> THEN sops ELSE Append(sops, ReadOp(1, got))
       /\ IF IsAck(got)
          THEN /\ si' = si + 1
               /\ slice_start' = NextSliceStart(slice_start, ssize)
               /\ spc' = IF si + 1 < sloop THEN "chunk_write" ELSE "done"
          ELSE UNCHANGED <<si, slice_start, spc>>
    /\ UNCHANGED <<auxvars, regvars, to_rcv, rvars, fb, self, data, ssize, sloop>>

\* the number of bytes other than 0x06 among the bytes of queue q
RECURSIVE JunkIn(_)
JunkIn(q) ==
    IF q = <<>> THEN 0
    ELSE (IF q[1] = ACK THEN 0 ELSE 1) + JunkIn(Tail(q))

\* the bytes the reads of log returned
RECURSIVE BytesRead(_)
BytesRead(log) ==
    IF log = <<>> THEN <<>>
    ELSE (IF log[1].op = "write" THEN <<>> ELSE log[1].data)
         \o BytesRead(Tail(log))

\* the peer of an into_stream call writes one byte: 0x06 or something else
PeerWrites(b) ==
    /\ spc \in {"header", "chunk_write", "wait_ack", "write_all"}
    /\ Len(to_snd) < 2
    /\ b # ACK => JunkIn(to_snd) + JunkIn(BytesRead(sops)) < MaxJunk
    /\ to_snd' = Append(to_snd, b)
    /\ UNCHANGED <<auxvars, regvars, to_rcv, rvars, fb, svars>>

PeerBytes == {ACK, 21}

\* a sender in front of a peer that may write anything
SendInit ==
    /\ RegInit /\ RcvInit /\ SndInit /\ AuxInit
    /\ to_rcv = <<>>
    /\ to_snd = <<>>

SendNext ==
    \/ \E p \in ImagePackets \cup APackets, n \in ChunkSizes : IntoStreamCall(p, n)
    \/ WriteAll \/ WriteHeader \/ WriteChunk \/ ReadAck
    \/ \E b \in PeerBytes : PeerWrites(b)

SendSpec == SendInit /\ [][SendNext]_vars

----------------------------------------------------------------------------
(* One into_stream call and one from_stream call on the two ends of a      *)
(* loss-free, in-order link, with the same interleave_size.  A read of the *)
(* receiving side times out only when nothing more can arrive: the bytes   *)
(* it asks for are queued, or the sender waits for an acknowledgment or    *)
(* has returned.                                                           *)

Wanted ==
    CASE rpc \in {"scan", "type", "colorspace", "tail_one"} -> 1
      [] rpc \in {"width", "height"} -> 2
      [] rpc = "chunk_read" -> rsize
      [] rpc = "tail_data" -> size_data
      [] rpc = "fixed" -> PACKET_LENGTH(Get(type_to_class, packet)) - 2
      [] OTHER -> 0

Arrived == Len(to_rcv) >= Wanted \/ spc \in {"wait_ack", "done"}

LinkInit == SendInit

LinkNext ==
    \/ \E p \in ImagePackets, n \in ChunkSizes : IntoStreamCall(p, n)
    \/ WriteHeader \/ WriteChunk \/ ReadAck
    \/ spc # "idle" /\ FromStreamCall("Packet", ssize)
    \/ Arrived /\ ReadStart
    \/ Arrived /\ ReadType
    \/ Arrived /\ ReadColorspace
    \/ Arrived /\ ReadWidth
    \/ Arrived /\ ReadHeight
    \/ Arrived /\ ReadChunk
    \/ WriteAck
    \/ Arrived /\ ReadTailData
    \/ Arrived /\ ReadTailOne

LinkSpec == LinkInit /\ [][LinkNext]_vars

----------------------------------------------------------------------------
(* Packet.checksum and Packet.add_checksum on their own, and the           *)
(* comparison from_bytes makes of a buffer with its last byte              *)

CkBytes == {0, 1, 127, 128, 255}

CkArgs == SeqsUpTo(CkBytes, MaxLen)

\* checksum = cls.checksum(packet[0:-1]); checksum != packet[-1] (88-89)
ChecksumMatches(pkt) == checksum(SubSeq(pkt, 1, Len(pkt) - 1)) = pkt[Len(pkt)]

ChecksumCall ==
    /\ "checksum" \notin DOMAIN ck_res
    /\ ck_res' = ck_res @@ ("checksum" :> checksum(ck_arg))
    /\ UNCHANGED <<registrations, polls, prev, ck_arg, regvars, chanvars, rvars,
                   fb, svars>>

AddChecksumCall ==
    /\ "add_checksum" \notin DOMAIN ck_res
    /\ ck_res' = ck_res @@ ("add_checksum" :> add_checksum(ck_arg))
    /\ UNCHANGED <<registrations, polls, prev, ck_arg, regvars, chanvars, rvars,
                   fb, svars>>

\* the comparison, made of what add_checksum returned
VerifyCall ==
    /\ "add_checksum" \in DOMAIN ck_res /\ "verified" \notin DOMAIN ck_res
    /\ ck_res' = ck_res @@ ("verified" :> ChecksumMatches(ck_res["add_checksum"]))
    /\ UNCHANGED <<registrations, polls, prev, ck_arg, regvars, chanvars, rvars,
                   fb, svars>>

CkInit ==
    /\ RegInit /\ RcvInit /\ SndInit
    /\ to_rcv = <<>> /\ to_snd = <<>>
    /\ registrations = <<"ImagePacket">> /\ polls = 0 /\ prev = NoPrev
    /\ ck_arg \in CkArgs /\ ck_res = NoReturns

CkNext == ChecksumCall \/ AddChecksumCall \/ VerifyCall

CkSpec == CkInit /\ [][CkNext]_vars

----------------------------------------------------------------------------
(* Any sequence of registrations, each recorded, and then a from_bytes     *)
(* call.  PacketB is a second class with the header of PacketA.            *)

AllClasses == RegClasses \cup {"PacketB"}

LoggedRegistration(c) ==
    /\ Len(registrations) <= MaxRegs
    /\ rpc = "idle" /\ spc = "idle" /\ ~fb.called
    /\ type_to_class' = Registered(type_to_class, c)
    /\ registrations' = Append(registrations, c)
    /\ UNCHANGED <<polls, prev, ck_arg, ck_res, chanvars, rvars, fb, svars>>

RegistryInit == SendInit

RegNext ==
    \/ \E c \in AllClasses : LoggedRegistration(c)
    \/ \E cls \in CallClasses, pkt \in Buffers : FromBytesCall(cls, pkt)

RegSpec == RegistryInit /\ [][RegNext]_vars

----------------------------------------------------------------------------
(* The fixed-length type through both codecs: from_bytes on the bytes      *)
(* to_bytes returns, and into_stream on one end of the link with           *)
(* from_stream on the other.  The classes are registered before anything   *)
(* is sent or decoded.                                                     *)

CodecCallClasses == CallClasses \cup {"PacketA"}

CodecInit == SendInit

CodecNext ==
    \/ \E c \in RegClasses : register_packet_type(c)
    \/ \E cls \in CodecCallClasses, p \in APackets : FromBytesCall(cls, to_bytes(p))
    \/ \E p \in APackets, n \in ChunkSizes : IntoStreamCall(p, n)
    \/ WriteAll
    \/ \E cls \in CodecCallClasses : spc # "idle" /\ FromStreamCall(cls, ssize)
    \/ Arrived /\ ReadStart
    \/ Arrived /\ ReadType
    \/ Arrived /\ ReadFixed

CodecSpec == CodecInit /\ [][CodecNext]_vars

Next ==
    \/ \E c \in RegClasses : register_packet_type(c)
    \/ \E cls \in CallClasses, pkt \in Buffers : FromBytesCall(cls, pkt)
    \/ \E cls \in CallClasses, n \in ChunkSizes : FromStreamCall(cls, n)
    \/ FromStreamStep
    \/ FromStreamAgain

Spec == Init /\ [][Next]_vars

\* a from_stream call that has started runs on: each stream.read returns,
\* with bytes or at its timeout
FairSpec == Spec /\ WF_vars(FromStreamStep)

----------------------------------------------------------------------------
(* What a from_stream call's log says, read without the call's locals *)

\* the position in ops of the read that returned the start marker, or 0
MarkerAt ==
    LET hits == {k \in DOMAIN ops :
                    /\ ops[k] = ReadOp(1, <<Bang>>)
                    /\ \A j \in 1..(k - 1) : ops[j].op = "read"} IN
    IF hits = {} THEN 0 ELSE CHOOSE k \in hits : \A j \in hits : k <= j

\* the call has read a type byte
TypeRead == MarkerAt > 0 /\ Len(ops) > MarkerAt /\ ops[MarkerAt + 1].data # <<>>

\* the 2-byte header the call has read
HeaderSeen == <<Bang>> \o ops[MarkerAt + 1].data

\* the call took the chunked route and has read the ChunkedHeader
ChunkedHeaderRead ==
    /\ TypeRead
    /\ Get(type_to_class, HeaderSeen) = "ImagePacket"
    /\ Len(ops) >= MarkerAt + 4

\* total_payload_length, from the ChunkedHeader fields as they were read
TotalPayloadLength ==
    LET disc  == ops[MarkerAt + 2].data
        dim_a == ops[MarkerAt + 3].data
        dim_b == ops[MarkerAt + 4].data
        le(b) == IF b = <<>> THEN 0
                 ELSE IF Len(b) = 1 THEN b[1] ELSE b[1] + 256 * b[2]
    IN le(dim_a) * le(dim_b) * (IF disc = <<16>> THEN 2 ELSE 3) + 1

\* ceil(a / b): the least k with k * b >= a
CeilOf(a, b) == CHOOSE k \in 0..a : k * b >= a /\ (k = 0 \/ (k - 1) * b < a)

WritesIn(log) == {k \in DOMAIN log : log[k].op = "write"}

\* the position in ops of the last operation of the chunk loop
LoopEnd == MarkerAt + 4 + 2 * CeilOf(TotalPayloadLength, rsize)

\* the chunk loop of the call is over
LoopOver == ChunkedHeaderRead /\ rpc \in {"tail_data", "tail_one", "done"}

RECURSIVE Concat(_)
Concat(ss) == IF ss = <<>> THEN <<>> ELSE ss[1] \o Concat(Tail(ss))

\* the bytes returned by the operations a..b of ops
DataOf(a, b) == Concat([k \in 1..(b - a + 1) |-> ops[a + k - 1].data])

----------------------------------------------------------------------------
(* C1: once from_stream has read the 2-byte type header and the 5-byte     *)
(* ChunkedHeader of an image frame, it performs exactly                    *)
(* ceil(total_payload_length / chunk_size) iterations, each a read of up   *)
(* to chunk_size bytes followed by a write of the one byte 0x06, and it    *)
(* writes nothing else to the stream.                                      *)
C1_ChunkLoop ==
    /\ \A k \in WritesIn(ops) :
          /\ ChunkedHeaderRead
          /\ k > MarkerAt + 4 /\ k <= LoopEnd
          /\ (k - MarkerAt) % 2 = 0
          /\ ops[k].data = <<6>>
          /\ ops[k - 1] = ReadOp(rsize, ops[k - 1].data)
          /\ Len(ops[k - 1].data) <= rsize
    /\ LoopOver =>
          /\ Cardinality(WritesIn(ops)) = CeilOf(TotalPayloadLength, rsize)
          /\ \A j \in 1..CeilOf(TotalPayloadLength, rsize) :
                /\ ops[MarkerAt + 4 + 2 * j - 1].op = "read"
                /\ ops[MarkerAt + 4 + 2 * j].op = "write"

\* C1's case: the 9 payload bytes of a 2 x 2 image with 2 bytes per pixel,
\* received with chunk size 4; the call has returned
C1_Witness ==
    /\ rpc = "done" /\ ChunkedHeaderRead
    /\ TotalPayloadLength = 9 /\ rsize = 4
    /\ Cardinality(WritesIn(ops)) = 3

----------------------------------------------------------------------------
(* What an into_stream call's log says *)

\* the byte strings written, in order
RECURSIVE WriteData(_)
WriteData(log) ==
    IF log = <<>> THEN <<>>
    ELSE (IF log[1].op = "write" THEN <<log[1].data>> ELSE <<>>)
         \o WriteData(Tail(log))

\* the call sent an image and has returned
ImageSent == spc = "done" /\ self.cls = "ImagePacket"

\* total_payload_length of the image being sent
SentPayloadLength ==
    self.width * self.height * (IF self.colorspace = 16 THEN 2 ELSE 3) + 1

(* C3: into_stream of an image first writes exactly the 7 bytes of type    *)
(* header and ChunkedHeader; the chunk writes that follow, concatenated in *)
(* order, equal to_bytes()[7:]; every chunk has at most chunk_size bytes   *)
(* and only the final chunk may be shorter.                                *)
C3_ChunksCoverFrame ==
    ImageSent =>
        LET ws == WriteData(sops)
            frame == to_bytes(self) IN
        /\ ws[1] = SubSeq(frame, 1, 7)
        /\ Concat(Tail(ws)) = SubSeq(frame, 8, Len(frame))
        /\ \A k \in 2..Len(ws) :
              /\ Len(ws[k]) <= ssize
              /\ k < Len(ws) => Len(ws[k]) = ssize

(* C4: after each chunk write into_stream reads one byte at a time and     *)
(* neither writes the next chunk nor returns until a read has returned     *)
(* 0x06; a read that returns another byte or nothing does not advance the  *)
(* transfer; between two chunk writes there is a read that returned 0x06.  *)
C4_StrictAlternation ==
    /\ [](\A k \in WritesIn(sops) : k > 2 => sops[k - 1] = ReadOp(1, <<6>>))
    /\ [](ImageSent => sops[Len(sops)] = ReadOp(1, <<6>>))
    /\ [][(spc = "wait_ack" /\ Take(to_snd, 1) # <<6>>) =>
            (spc' = "wait_ack" /\ si' = si /\ to_rcv' = to_rcv)]_vars

\* C4's case: a byte other than 0x06 was read during a wait, and the call
\* went on to write further chunks and returned
C4_Witness ==
    /\ ImageSent
    /\ Len(WriteData(sops)) >= 3
    /\ \E k \in DOMAIN sops : sops[k].op = "read" /\ sops[k].data # <<6>>

(* C5: the sender makes ceil(total_payload_length / chunk_size)            *)
(* chunk/acknowledge round-trips, total_payload_length being               *)
(* width * height * bytes_per_unit + 1, and its last chunk carries         *)
(* total_payload_length - (rounds - 1) * chunk_size bytes: 3 round-trips   *)
(* and a last chunk of 1 byte for width 2, height 2, 2 bytes per unit and  *)
(* chunk size 4.                                                           *)
C5_SenderRoundTrips ==
    ImageSent =>
        LET ws == WriteData(sops)
            rounds == CeilOf(SentPayloadLength, ssize) IN
        /\ Len(ws) - 1 = rounds
        /\ Cardinality({k \in DOMAIN sops : sops[k] = ReadOp(1, <<6>>)}) = rounds
        /\ Len(ws[Len(ws)]) = SentPayloadLength - (rounds - 1) * ssize

(* C6: one into_stream call and one from_stream call exchanging an image   *)
(* over a loss-free link with the same chunk size both terminate: the      *)
(* sender is never left waiting for a 0x06 that the receiver, having       *)
(* returned, will not send.                                                *)
C6_NoStarvedSender == ~(rpc = "done" /\ spc = "wait_ack" /\ to_snd = <<>>)

----------------------------------------------------------------------------
(* What the last from_bytes invocation says *)

\* (~sum(body)) & 0xFF
ExpectedChecksum(body) == 255 - (Sum(body) % 256)

\* the class registered for the header of buffer pkt
ClassOf(pkt) == Get(type_to_class, SubSeq(pkt, 1, 2))

\* pkt has the header of a registered fixed-length type and that type's length
FixedLengthBuffer(pkt) ==
    /\ Len(pkt) >= 3
    /\ ClassOf(pkt) \notin {None, "ImagePacket"}
    /\ Len(pkt) = PACKET_LENGTH(ClassOf(pkt))

\* every decoded frame carries the checksum of its other bytes
ChecksumOfDecoded ==
    (fb.called /\ fb.result.kind = "frame") =>
        /\ Len(fb.packet) >= 1
        /\ fb.packet[Len(fb.packet)]
             = ExpectedChecksum(SubSeq(fb.packet, 1, Len(fb.packet) - 1))

\* a fixed-length buffer is dispatched when its checksum is right and fails
\* with "Bad checksum" when one bit of the checksum byte is flipped
DispatchOrBadChecksum ==
    LET pkt  == fb.packet
        want == ExpectedChecksum(SubSeq(pkt, 1, Len(pkt) - 1)) IN
    /\ pkt[Len(pkt)] = want =>
          fb.result.kind = "frame" /\ fb.result.cls = ClassOf(pkt)
    /\ (\E k \in 0..7 : pkt[Len(pkt)] = FlipBit(want, k)) =>
          fb.result = Err("Bad checksum")

(* C7, as stated: from_bytes, and from_stream after a start marker,        *)
(* returns a frame only if the last byte of the buffer is                  *)
(* (~sum(other bytes)) & 0xFF; a buffer of a registered fixed-length type  *)
(* with the right length is dispatched to the type's decoder when its      *)
(* checksum is right and fails with "Bad checksum", the decoder not        *)
(* invoked, when one bit of the checksum byte is flipped.                  *)
C7_Original ==
    /\ ChecksumOfDecoded
    /\ (fb.called /\ FixedLengthBuffer(fb.packet)) => DispatchOrBadChecksum

(* C7, amended: the same, for a call of from_bytes on Packet or on a class *)
(* that the registered class is or derives from.                           *)
C7_ChecksumValidated ==
    /\ ChecksumOfDecoded
    /\ (fb.called /\ FixedLengthBuffer(fb.packet)
            /\ issubclass(ClassOf(fb.packet), fb.cls)) => DispatchOrBadChecksum

\* C7's case: from_stream read a start marker and a fixed-length frame whose
\* checksum byte has bit 7 flipped, and failed with "Bad checksum"
C7_Witness ==
    /\ rpc = "done" /\ fb.called
    /\ fb.packet = FlipLast(AFrame(0), 7)
    /\ result = Err("Bad checksum")

(* C8: from_stream returns None, without an error, when the first one-byte *)
(* read (or a later read of the scan) returns nothing, and when a start    *)
(* marker was read but the read of the type byte returns nothing; it then  *)
(* performs no further read and no write.                                  *)
C8_TimeoutReturnsNone ==
    /\ \A k \in DOMAIN ops :
          (/\ ops[k] = ReadOp(1, <<>>)
           /\ \A j \in 1..(k - 1) : ops[j].op = "read" /\ ops[j].data # <<Bang>>)
          => (rpc = "done" /\ result = ReturnNone /\ Len(ops) = k
              /\ WritesIn(ops) = {})
    /\ (MarkerAt > 0 /\ Len(ops) > MarkerAt /\ ops[MarkerAt + 1].data = <<>>)
          => (rpc = "done" /\ result = ReturnNone /\ Len(ops) = MarkerAt + 1
              /\ WritesIn(ops) = {})

\* C8's case: the start marker was read and the read of the type byte
\* returned nothing
C8_Witness ==
    /\ ops = <<ReadOp(1, <<Bang>>), ReadOp(1, <<>>)>>
    /\ result = ReturnNone

(* C9: when from_stream reads a start marker and a type byte whose header  *)
(* is not registered, it fails with "Unregistered packet type" whatever    *)
(* follows, without scanning on, having consumed the two header bytes and  *)
(* nothing after them.                                                     *)
C9_UnregisteredFails ==
    (TypeRead /\ Get(type_to_class, HeaderSeen) = None) =>
        /\ rpc = "done"
        /\ result = Err("Unregistered packet type")
        /\ Len(ops) = MarkerAt + 1
        /\ Len(DataOf(MarkerAt, Len(ops))) = 2
        /\ ~fb.called

\* C9's case: the header b"!Z" was read, the call failed and the bytes
\* after the header are still queued
C9_Witness ==
    /\ TypeRead /\ HeaderSeen = ZHeader
    /\ result = Err("Unregistered packet type")
    /\ to_rcv # <<>>

(* C10: with a raw-line fallback type registered, a first byte that is not *)
(* the start marker makes from_stream read the rest of the line and return *)
(* a frame of the fallback type whose payload is that byte followed by the *)
(* rest of the line, with no header lookup and no checksum validation; a   *)
(* first byte that is the start marker does not take the fallback route.   *)
C10_RawLineFallback ==
    LET fallback == Get(type_to_class, RawTextHeader) IN
    /\ (rpc = "done" /\ fallback # None /\ ops[1].data \notin {<<>>, <<Bang>>})
          => /\ Len(ops) = 2 /\ ops[2].op = "readline"
             /\ result = [kind |-> "frame", cls |-> fallback,
                          text |-> ops[1].data \o ops[2].data]
             /\ \A i \in 1..(Len(ops[2].data) - 1) : ops[2].data[i] # Newline
             /\ (ops[2].data = <<>> \/ ops[2].data[Len(ops[2].data)] # Newline)
                   => to_rcv = <<>>
             /\ ~fb.called
    /\ (Len(ops) >= 1 /\ ops[1].data = <<Bang>>)
          => /\ \A k \in DOMAIN ops : ops[k].op # "readline"
             /\ result.kind = "frame" => (fb.called /\ result = fb.result)

\* C10's case: the line b"hi\n" in front of a frame was returned as raw text
C10_Witness ==
    /\ rpc = "done"
    /\ result.kind = "frame" /\ result.cls = "RawTextPacket"
    /\ result.text = <<104, 105, Newline>>
    /\ to_rcv # <<>>

----------------------------------------------------------------------------
(* C11 *)

\* the frame a fixed-length packet p is, field for field
Decoded(p) == [kind |-> "frame", cls |-> p.cls, payload |-> <<p.payload>>]

IsRegistered(c) == Get(type_to_class, TYPE_HEADER(c)) = c

\* C11 as stated: for every registered fixed-length type and payload,
\* from_bytes, on whatever class it is called, returns the frame for the
\* encoded bytes, and so does from_stream for the bytes into_stream wrote
C11_Original ==
    /\ \A p \in APackets :
          fb.called /\ IsRegistered(p.cls) /\ fb.packet = to_bytes(p)
              => fb.result = Decoded(p)
    /\ rpc = "done" /\ spc = "done" /\ IsRegistered(self.cls)
          => result = Decoded(self)

\* C11: for every registered fixed-length type and payload, decoding the
\* encoded frame with its checksum by from_bytes (called on Packet or on the
\* type's own class) returns a frame equal to the original field for field;
\* from_stream returns the same for the bytes into_stream wrote
C11_RoundTrip ==
    /\ \A p \in APackets :
          /\ fb.called /\ IsRegistered(p.cls) /\ fb.packet = to_bytes(p)
          /\ fb.cls \in {"Packet", p.cls}
          => fb.result = Decoded(p)
    /\ /\ rpc = "done" /\ spc = "done" /\ IsRegistered(self.cls)
       /\ rcls \in {"Packet", self.cls}
       => result = Decoded(self)

\* a frame with payload 7 went through into_stream and from_stream
C11_Witness ==
    /\ rpc = "done" /\ spc = "done" /\ rcls = "Packet"
    /\ self = [cls |-> "PacketA", payload |-> 7]
    /\ sops = <<WriteOp(to_bytes(self))>>
    /\ result = [kind |-> "frame", cls |-> "PacketA", payload |-> <<7>>]

----------------------------------------------------------------------------
(* C12 *)

\* pkt starts with the header of a registered fixed-length type and has
\* another length than that type's
WrongLengthBuffer(pkt) ==
    /\ Len(pkt) >= 2
    /\ ClassOf(pkt) \notin {None, "ImagePacket"}
    /\ PACKET_LENGTH(ClassOf(pkt)) # NoLength
    /\ Len(pkt) # PACKET_LENGTH(ClassOf(pkt))

\* C12 as stated: a buffer of a fixed-length type whose length differs from
\* the type's fails with "Wrong length packet", and from_stream then
\* reports that error, not None
C12_Original ==
    (fb.called /\ WrongLengthBuffer(fb.packet)) =>
        /\ fb.result = Err("Wrong length packet")
        /\ rpc = "done" => result = Err("Wrong length packet")

\* C12: a buffer of a fixed-length type whose length differs from the
\* type's is never decoded and never reported as None: it fails with an
\* error, which is "Wrong length packet" when the buffer has three bytes or
\* more and from_bytes was called on Packet or on a class the type is or
\* derives from, and "Packet too short" when the buffer has two bytes
C12_WrongLengthFails ==
    (fb.called /\ WrongLengthBuffer(fb.packet)) =>
        /\ fb.result.kind = "error"
        /\ rpc = "done" => result = fb.result
        /\ Len(fb.packet) < 3 => fb.result = Err("Packet too short")
        /\ (Len(fb.packet) >= 3 /\ issubclass(ClassOf(fb.packet), fb.cls))
              => fb.result = Err("Wrong length packet")

\* C12's case: from_stream read the header of the fixed-length type and
\* only one of the two bytes that follow it
C12_Witness ==
    /\ rpc = "done" /\ fb.called
    /\ ops[Len(ops)] = ReadOp(2, <<0>>)
    /\ fb.packet = AHeader \o <<0>>
    /\ result = Err("Wrong length packet")

----------------------------------------------------------------------------
(* C13 *)

Headers == {ImageHeader, AHeader, RawTextHeader, ZHeader}

\* the class of the last recorded registration whose header is h, or None
LastRegistered(h) ==
    LET at == {i \in DOMAIN registrations : TYPE_HEADER(registrations[i]) = h} IN
    IF at = {} THEN None
    ELSE registrations[CHOOSE i \in at : \A j \in at : j <= i]

\* C13: after any sequence of register_packet_type calls the registry holds,
\* for every header, the class of the most recent registration with that
\* header and nothing for a header never registered; from_bytes fails with
\* "Unregistered packet type" exactly for the headers never registered and
\* decodes with the most recently registered class
C13_LastRegistrationWins ==
    /\ \A h \in Headers : Get(type_to_class, h) = LastRegistered(h)
    /\ DOMAIN type_to_class \subseteq Headers
    /\ (fb.called /\ Len(fb.packet) >= 3) =>
          /\ fb.result = Err("Unregistered packet type")
                <=> LastRegistered(SubSeq(fb.packet, 1, 2)) = None
          /\ fb.result.kind = "frame"
                => fb.result.cls = LastRegistered(SubSeq(fb.packet, 1, 2))

\* C13's case: PacketB was registered over PacketA, another header was
\* registered after it, and a five-byte b"!A" buffer went to PacketB
C13_Witness ==
    /\ registrations = <<"ImagePacket", "PacketA", "PacketB", "RawTextPacket">>
    /\ fb.called /\ fb.packet = LongA
    /\ fb.result = [kind |-> "frame", cls |-> "PacketB", payload |-> <<0, 0>>]

----------------------------------------------------------------------------
(* C14 *)

RECURSIVE Pow2(_)
Pow2(k) == IF k = 0 THEN 1 ELSE 2 * Pow2(k - 1)

Bit(x, k) == (x \div Pow2(k)) % 2

\* (~x) & 0xFF, bit by bit: the low eight bits of x, each inverted
InvertLow8(x) ==
    LET RECURSIVE Upto(_)
        Upto(k) == IF k < 0 THEN 0 ELSE (1 - Bit(x, k)) * Pow2(k) + Upto(k - 1)
    IN Upto(7)

\* C14: checksum(b) is (~sum(b)) & 0xFF, a value in 0..255, and 0xFF for the
\* empty sequence; add_checksum(b) is b followed by exactly that byte, the
\* same byte a separate call of checksum(b) returns; the comparison
\* from_bytes makes of add_checksum(b) with its last byte succeeds
C14_ChecksumCodec ==
    LET want == InvertLow8(Sum(ck_arg)) IN
    /\ "checksum" \in DOMAIN ck_res =>
          /\ ck_res["checksum"] = want
          /\ ck_res["checksum"] \in 0..255
          /\ ck_arg = <<>> => ck_res["checksum"] = 255
    /\ "add_checksum" \in DOMAIN ck_res =>
          /\ ck_res["add_checksum"] = ck_arg \o <<want>>
          /\ "checksum" \in DOMAIN ck_res =>
                ck_res["add_checksum"][Len(ck_arg) + 1] = ck_res["checksum"]
    /\ "verified" \in DOMAIN ck_res => ck_res["verified"] = TRUE

\* C14's case: the bytes sum to 256, the checksum is 0xFF, and the frame
\* with its checksum passed the comparison
C14_Witness ==
    /\ ck_arg = <<255, 1>>
    /\ DOMAIN ck_res = {"checksum", "add_checksum", "verified"}
    /\ ck_res["checksum"] = 255
    /\ ck_res["add_checksum"] = <<255, 1, 255>>
    /\ ck_res["verified"]

----------------------------------------------------------------------------
(* C15 *)

NoFallback == Get(type_to_class, RawTextHeader) = None

\* the call has read no start marker so far
StillScanning == rpc # "idle" /\ MarkerAt = 0

\* with no fallback registered, a from_stream call that has read no start
\* marker has made only one-byte reads and raised no error; every read
\* before the last returned one byte, so each pass of the scan consumes a
\* byte of the stream; a read that returned nothing is the last operation
\* of the call, which has returned None; and the call returns only then
ScanSafe ==
    (NoFallback /\ StillScanning) =>
        /\ rpc \in {"scan", "done"}
        /\ result \in {NoResult, ReturnNone}
        /\ ~fb.called
        /\ \A k \in DOMAIN ops :
              /\ ops[k].op = "read" /\ ops[k].n = 1
              /\ k < Len(ops) => Len(ops[k].data) = 1
              /\ ops[k].data = <<>> =>
                    k = Len(ops) /\ rpc = "done" /\ result = ReturnNone
        /\ rpc = "done" =>
              /\ ops # <<>> /\ ops[Len(ops)].data = <<>>
              /\ to_rcv = <<>>
        /\ rpc = "scan" => result = NoResult

\* C15: with no fallback registered the scan of from_stream skips bytes
\* that are not the start marker one at a time without error, returns None
\* as soon as a read returns nothing, and never scans forever: it ends by
\* returning None or by reading a start marker
C15_ScanTerminates ==
    /\ []ScanSafe
    /\ (NoFallback /\ rpc = "scan") ~> (rpc # "scan")

\* C15's case: three bytes, none the start marker, were skipped and the
\* fourth read returned nothing
C15_Witness ==
    /\ NoFallback /\ rpc = "done" /\ result = ReturnNone
    /\ ops = <<ReadOp(1, <<104>>), ReadOp(1, <<105>>), ReadOp(1, <<Newline>>),
               ReadOp(1, <<>>)>>

----------------------------------------------------------------------------
(* C16 *)

\* rest is i bytes without a start marker, then the encoded frame of the
\* fixed-length packet p
FrameAfterNoise(rest, i, p) ==
    /\ \A j \in 1..i : rest[j] # Bang
    /\ i + Len(to_bytes(p)) <= Len(rest)
    /\ SubSeq(rest, i + 1, i + Len(to_bytes(p))) = to_bytes(p)

\* the call made after an "Unregistered packet type" failure has returned,
\* and what the failed call left queued was noise and then p's frame
RetriedOver(i, p) ==
    /\ polls >= 1 /\ prev.result = Err("Unregistered packet type")
    /\ NoFallback /\ IsRegistered(p.cls)
    /\ FrameAfterNoise(prev.rest, i, p)
    /\ rpc = "done"

\* C16 as stated: the from_stream call after an "Unregistered packet type"
\* failure reads on from where the failed call stopped and, when noise
\* without a start marker and then a valid frame of a registered
\* fixed-length type follow, returns that frame
C16_Original ==
    /\ (polls >= 1 /\ WritesIn(ops) = {}) =>
          DataOf(1, Len(ops)) \o to_rcv = prev.rest
    /\ \A p \in APackets, i \in 0..Len(prev.rest) :
          RetriedOver(i, p) => result = Decoded(p)

\* C16: the same, for a call on Packet or on the frame's own class; the
\* call has then consumed the noise and the frame and nothing more
C16_Resynchronises ==
    /\ (polls >= 1 /\ WritesIn(ops) = {}) =>
          DataOf(1, Len(ops)) \o to_rcv = prev.rest
    /\ \A p \in APackets, i \in 0..Len(prev.rest) :
          (RetriedOver(i, p) /\ rcls \in {"Packet", p.cls}) =>
              /\ result = Decoded(p)
              /\ Len(to_rcv) = Len(prev.rest) - i - Len(to_bytes(p))

\* C16's case: b"!Z" failed, and the next call skipped three bytes and
\* returned the frame that followed them
C16_Witness ==
    /\ polls = 1 /\ prev.result = Err("Unregistered packet type")
    /\ prev.rest = <<1, 105, Newline>> \o AFrame(7)
    /\ NoFallback /\ rpc = "done"
    /\ result = [kind |-> "frame", cls |-> "PacketA", payload |-> <<7>>]

----------------------------------------------------------------------------
(* C17 *)

\* C17: on the chunked route from_stream reads the discriminator with a
\* one-byte read and each dimension with a two-byte read; size_data is,
\* from the header on and through the chunk loop, a * b * bytes_per_unit + 1
\* with a and b the dimension fields taken low byte first and
\* bytes_per_unit 2 when the discriminator byte is 16 and 3 otherwise;
\* loop_count is ceil(size_data / interleave_size); no chunk is read or
\* acknowledged before the header is complete
C17_SizeArithmetic ==
    /\ ChunkedHeaderRead =>
          /\ \A k \in 2..4 : ops[MarkerAt + k].op = "read"
          /\ ops[MarkerAt + 2].n = 1
          /\ ops[MarkerAt + 3].n = 2 /\ ops[MarkerAt + 4].n = 2
          /\ size_data = TotalPayloadLength
          /\ rloop = CeilOf(TotalPayloadLength, rsize)
          /\ ri <= rloop
    /\ rpc \in {"colorspace", "width", "height"} =>
          WritesIn(ops) = {} /\ Len(ops) <= MarkerAt + 3

\* C17's case: discriminator 24, dimensions 2 and 1 sent low byte first,
\* 7 bytes to come, in 2 chunks of up to 4; the loop has run
C17_Witness ==
    /\ ChunkedHeaderRead /\ rpc = "tail_data" /\ rsize = 4
    /\ ops[MarkerAt + 2].data = <<24>>
    /\ ops[MarkerAt + 3].data = <<2, 0>>
    /\ ops[MarkerAt + 4].data = <<1, 0>>
    /\ size_data = 7 /\ rloop = 2 /\ ri = 2

----------------------------------------------------------------------------
(* C18 *)

\* the encoded buffer of the fixed-length packet p: header, payload, and
\* the checksum of the two as last byte
FixedFrame(p) ==
    TYPE_HEADER(p.cls) \o <<p.payload>>
        \o <<ExpectedChecksum(TYPE_HEADER(p.cls) \o <<p.payload>>)>>

\* C18: into_stream of a fixed-length packet performs one stream write,
\* whose argument is the whole encoded buffer with the checksum as its last
\* byte, and nothing else: no earlier or later write, no read of the bytes
\* the peer has written, no wait for an acknowledgment
C18_SingleWrite ==
    self.cls \notin {None, "ImagePacket"} =>
        /\ spc \in {"write_all", "done"}
        /\ spc = "write_all" => sops = <<>> /\ to_rcv = <<>>
        /\ spc = "done" =>
              /\ sops = <<WriteOp(FixedFrame(self))>>
              /\ to_rcv = FixedFrame(self)
        /\ si = 0 /\ sloop = 0

\* C18's case: the packet with payload 7 was sent in one write while a byte
\* of the peer stayed unread
C18_Witness ==
    /\ spc = "done" /\ self = [cls |-> "PacketA", payload |-> 7]
    /\ sops = <<WriteOp(<<33, 65, 7, 150>>)>>
    /\ to_snd # <<>>

----------------------------------------------------------------------------
(* C19 *)

\* the defects of the buffer of the last from_bytes invocation
TooShort == Len(fb.packet) < 3

UnknownHeader == ClassOf(fb.packet) = None

OtherClass == fb.cls # "Packet" /\ ClassOf(fb.packet) # fb.cls

WrongLength ==
    /\ ClassOf(fb.packet) # "ImagePacket"
    /\ Len(fb.packet) # PACKET_LENGTH(ClassOf(fb.packet))

WrongChecksum ==
    fb.packet[Len(fb.packet)]
        # ExpectedChecksum(SubSeq(fb.packet, 1, Len(fb.packet) - 1))

\* from_bytes got as far as the decoder of the class
DecoderInvoked == fb.result.kind = "frame" \/ fb.result = Err("struct.error")

\* C19 as stated: a buffer shorter than 3 bytes is rejected whatever is
\* registered; otherwise an unregistered header is reported, otherwise a
\* wrong length, otherwise a bad checksum, and the decoder is invoked only
\* for a buffer with none of these defects
C19_Original ==
    fb.called =>
        /\ TooShort => fb.result = Err("Packet too short")
        /\ (~TooShort /\ UnknownHeader)
              => fb.result = Err("Unregistered packet type")
        /\ (~TooShort /\ ~UnknownHeader /\ WrongLength)
              => fb.result = Err("Wrong length packet")
        /\ (~TooShort /\ ~UnknownHeader /\ ~WrongLength /\ WrongChecksum)
              => fb.result = Err("Bad checksum")
        /\ DecoderInvoked
              => ~TooShort /\ ~UnknownHeader /\ ~WrongLength /\ ~WrongChecksum

\* C19: the same order with the test of the class in its place: too short,
\* then unregistered header, then a class that the class from_bytes was
\* called on does not accept, then wrong length, then bad checksum; the
\* decoder is invoked only for a buffer that passed all five
C19_ValidationOrder ==
    fb.called =>
        /\ TooShort => fb.result = Err("Packet too short")
        /\ (~TooShort /\ UnknownHeader)
              => fb.result = Err("Unregistered packet type")
        /\ (~TooShort /\ ~UnknownHeader /\ OtherClass)
              => fb.result = Err("Packet type is not a")
        /\ (~TooShort /\ ~UnknownHeader /\ ~OtherClass /\ WrongLength)
              => fb.result = Err("Wrong length packet")
        /\ (~TooShort /\ ~UnknownHeader /\ ~OtherClass /\ ~WrongLength
                /\ WrongChecksum)
              => fb.result = Err("Bad checksum")
        /\ DecoderInvoked
              => /\ ~TooShort /\ ~UnknownHeader /\ ~OtherClass
                 /\ ~WrongLength /\ ~WrongChecksum

\* C19's case: a three-byte b"!A" buffer, of the wrong length and with a
\* wrong checksum, was reported as of the wrong length
C19_Witness ==
    /\ fb.called /\ fb.cls = "Packet" /\ fb.packet = AHeader \o <<0>>
    /\ WrongLength /\ WrongChecksum
    /\ fb.result = Err("Wrong length packet")

----------------------------------------------------------------------------
(* C20 *)

\* C20: from_bytes called on a class other than Packet rejects, with the
\* error "Packet type is not a ...", every buffer of three bytes or more
\* whose header is registered to another class, also when its length and
\* checksum are right; called on Packet it raises that error for no buffer
C20_ClassChecked ==
    (fb.called /\ Len(fb.packet) >= 3 /\ ClassOf(fb.packet) # None) =>
        /\ (fb.cls # "Packet" /\ ClassOf(fb.packet) # fb.cls)
              => fb.result = Err("Packet type is not a")
        /\ fb.cls = "Packet" => fb.result # Err("Packet type is not a")
        /\ (fb.cls = "Packet" /\ ~WrongLength /\ ~WrongChecksum)
              => DecoderInvoked

\* C20's case: ImagePacket.from_bytes on a b"!A" frame of the right length
\* and checksum
C20_Witness ==
    /\ fb.called /\ fb.cls = "ImagePacket" /\ fb.packet = AFrame(0)
    /\ ClassOf(fb.packet) = "PacketA" /\ ~WrongLength /\ ~WrongChecksum
    /\ fb.result = Err("Packet type is not a")

====
